---- MODULE Spec2Model ----
(***************************************************************************)
(* qBittorrent daily report: the poll loop of src/main.py.                 *)
(*                                                                         *)
(* main() calls query_qbittorrent and sleeps, forever.  One cycle logs in, *)
(* fetches the torrent list, loads the previous snapshot from the shelve   *)
(* file, computes the since-last-poll figures, saves the new snapshot and  *)
(* posts the report to the webhook.  The outcomes of the network calls and *)
(* of the file operations are chosen by the environment.                   *)
(***************************************************************************)
EXTENDS Integers, Sequences, FiniteSets, TLC

\* ------------------------------------------------------------------ bounds
\* longest torrent list the fetch returns
MaxLen == 2
\* longest torrent list whose records are drawn in every state
MaxStatesLen == 2
\* largest cumulative uploaded counter of a torrent
MaxBytes == 1

\* ------------------------------------------------------------ value domains
Hashes == {"A", "B"}
Names == {"alpha", "beta"}
\* a torrent keeps its display name: the name is drawn per hash
NameOf(h) == IF h = "A" THEN "alpha" ELSE "beta"
\* the cumulative counters: uploaded up to the bound, downloaded either
\* nothing or one byte
Bytes == 0..MaxBytes
DownloadedBytes == {0, 1}

\* the states qBittorrent reports for a torrent
States ==
    {"downloading", "uploading", "forcedUP", "forcedDL", "stalledUP", "stalledDL",
     "queuedUP", "queuedDL", "checkingUP", "checkingDL", "metaDL",
     "pausedUP", "pausedDL", "error", "missingFiles", "moving"}
\* in the poll loop a torrent is drawn in one state per hash
StateOf(h) == IF h = "A" THEN "uploading" ELSE "stalledDL"

\* The fields of a TorrentInfo record that the snapshot, the deltas and the
\* category counts read.  size, ratio, dlspeed and upspeed, and the totals of
\* the counters, feed only the text of the embed.
TorrentInfo ==
    {[hash |-> h, name |-> NameOf(h), uploaded |-> u, downloaded |-> d,
      state |-> StateOf(h)] :
        h \in Hashes, u \in Bytes, d \in DownloadedBytes}

\* records in every state, with counters at rest
TorrentInfoAnyState ==
    {[hash |-> h, name |-> NameOf(h), uploaded |-> 0, downloaded |-> 0,
      state |-> st] : h \in Hashes, st \in States}

\* the lists response.json() can return, the empty list included
RECURSIVE ListsUpTo(_)
ListsUpTo(n) ==
    IF n = 0 THEN {<<>>}
    ELSE LET shorter == ListsUpTo(n - 1)
         IN shorter \cup {Append(l, t) : l \in {s \in shorter : Len(s) = n - 1},
                                          t \in TorrentInfo}
TorrentLists == ListsUpTo(MaxLen)

\* no two records of the list have the same hash
DistinctHashes(ts) ==
    \A i, j \in DOMAIN ts : ts[i].hash = ts[j].hash => i = j

\* the lists qBittorrent answers with: one record per torrent
ItemLists == {l \in TorrentLists : DistinctHashes(l)}

RECURSIVE AnyStateListsUpTo(_)
AnyStateListsUpTo(n) ==
    IF n = 0 THEN {<<>>}
    ELSE LET shorter == AnyStateListsUpTo(n - 1)
         IN shorter \cup {Append(l, t) : l \in {s \in shorter : Len(s) = n - 1},
                                          t \in TorrentInfoAnyState}
AnyStateLists == AnyStateListsUpTo(MaxStatesLen)

\* ------------------------------------------------------- the shelve file
\* An entry stored under a hash.  save_current_stats writes all three
\* fields; a file written by another version of the program may hold
\* entries that lack one of them.
FullEntry == [uploaded : Bytes, downloaded : DownloadedBytes, name : Names]
PartialEntry ==
    [uploaded : Bytes, name : Names] \cup
    [downloaded : DownloadedBytes, name : Names] \cup
    [uploaded : Bytes, downloaded : DownloadedBytes]
StoredEntry == FullEntry \cup PartialEntry

EmptyStats == [h \in {} |-> 0]

\* the file torrent_stats.db: absent, unreadable, or a database whose key
\* 'torrents' holds a mapping (a database without the key reads as {})
Absent == [kind |-> "absent", torrents |-> EmptyStats]
Corrupt == [kind |-> "corrupt", torrents |-> EmptyStats]
Db(stats) == [kind |-> "db", torrents |-> stats]

\* what db.get('torrents', {}) yields, {} when shelve.open raises
Stored(d) == IF d.kind = "db" THEN d.torrents ELSE EmptyStats

\* the files the program can find at start: none, an unreadable one, or a
\* database left by an earlier run with one entry, complete or partial
InitialDisks ==
    {Absent, Corrupt, Db(EmptyStats)} \cup
    {Db([h \in {k} |-> e]) : k \in Hashes, e \in StoredEntry}

\* ------------------------------------------------- save_current_stats
\* faulty variant: the downloaded field copied from the uploaded counter
EntryUploadedTwice(t) ==
    [uploaded |-> t.uploaded, downloaded |-> t.uploaded, name |-> t.name]

\* the entry the dict comprehension derives from one record
Entry(t) == [uploaded |-> t.uploaded, downloaded |-> t.downloaded, name |-> t.name]

\* {t['hash']: {...} for t in torrents}: records are inserted in list
\* order, a later record with the same hash replaces the earlier one
RECURSIVE StatsOf(_)
StatsOf(ts) ==
    IF ts = <<>> THEN EmptyStats
    ELSE LET t == ts[Len(ts)]
             before == StatsOf(SubSeq(ts, 1, Len(ts) - 1))
         IN [h \in DOMAIN before \cup {t.hash} |->
                IF h = t.hash THEN Entry(t) ELSE before[h]]

\* ----------------------------------------------- format_torrent_stats
\* the state lists of the four category counts
ActiveStates == {"downloading", "uploading", "forcedUP", "forcedDL"}
StalledStates == {"stalledUP", "stalledDL"}

\* faulty variant: a torrent counted as active is not counted as seeding
SeedingStatesNotActive == {"stalledUP", "queuedUP", "checkingUP"}

SeedingStates == {"uploading", "stalledUP", "forcedUP", "queuedUP", "checkingUP"}
DownloadingStates ==
    {"downloading", "stalledDL", "forcedDL", "queuedDL", "checkingDL", "metaDL"}
\* 'paused' in t['state'].lower(): the states whose name holds the word
PausedStates == {"pausedUP", "pausedDL"}

\* sum(1 for t in torrents if t['state'] in [...])
RECURSIVE CountIn(_, _)
CountIn(ts, states) ==
    IF ts = <<>> THEN 0
    ELSE CountIn(SubSeq(ts, 1, Len(ts) - 1), states) +
            (IF ts[Len(ts)].state \in states THEN 1 ELSE 0)

\* previous_stats[torrent_hash]['uploaded'] raises KeyError when the stored
\* entry has no 'uploaded'; nothing in the program catches it
RaisesKeyError(ts, prev) ==
    \E i \in DOMAIN ts :
        /\ ts[i].hash \in DOMAIN prev
        /\ "uploaded" \notin DOMAIN prev[ts[i].hash]

\* faulty variant: a counter that went down contributes nothing
uploaded_diff_clamped(t, prev) ==
    IF t.uploaded < prev[t.hash].uploaded THEN 0
    ELSE t.uploaded - prev[t.hash].uploaded

uploaded_diff(t, prev) == t.uploaded - prev[t.hash].uploaded

\* .get('downloaded', 0)
downloaded_diff(t, prev) ==
    t.downloaded -
        (IF "downloaded" \in DOMAIN prev[t.hash] THEN prev[t.hash].downloaded ELSE 0)

\* faulty variant: `new_torrents = 1` in place of `new_torrents += 1`
CountNewAsFlag(acc) == [acc EXCEPT !.new = 1]

\* the else branch of the loop
CountNew(acc) == [acc EXCEPT !.new = acc.new + 1]

\* the loop over torrents, one record after the other, with its three
\* accumulators
RECURSIVE SinceLast(_, _)
SinceLast(ts, prev) ==
    IF ts = <<>> THEN [uploaded |-> 0, downloaded |-> 0, new |-> 0]
    ELSE LET t == ts[Len(ts)]
             acc == SinceLast(SubSeq(ts, 1, Len(ts) - 1), prev)
         IN IF t.hash \in DOMAIN prev
            THEN [uploaded |-> acc.uploaded + uploaded_diff(t, prev),
                  downloaded |-> acc.downloaded + downloaded_diff(t, prev),
                  new |-> acc.new]
            ELSE CountNew(acc)

current_hashes(ts) == {ts[i].hash : i \in DOMAIN ts}

\* faulty variant: the previous entries minus the current records that were known
DeletedBySubtraction(ts, prev) ==
    Cardinality(DOMAIN prev) -
        Cardinality({i \in DOMAIN ts : ts[i].hash \in DOMAIN prev})

\* faulty variant: the current hashes that the previous snapshot lacks
DeletedAmongCurrent(ts, prev) ==
    IF prev # EmptyStats
    THEN Cardinality({h \in current_hashes(ts) : h \notin DOMAIN prev})
    ELSE 0

DeletedCount(ts, prev) ==
    IF prev # EmptyStats
    THEN Cardinality({prev_hash \in DOMAIN prev : prev_hash \notin current_hashes(ts)})
    ELSE 0

\* faulty variant: `if torrents is None: return`, which an empty list passes
EarlyReturnOnNone(ts) == FALSE

\* `if not torrents: return`
EarlyReturn(ts) == ts = <<>>

\* ------------------------------------------------------- control flow
\* None of the three requests calls passes a timeout: a server that accepts
\* the connection and never answers leaves the call, and with it the loop,
\* waiting (the outcomes named ..._no_response).

\* login_qbittorrent returns the session only for status 200 with body 'Ok.';
\* query_qbittorrent returns when there is no session
LoginFailures == {"login_exception", "login_status", "login_body"}
LoginOutcomes == LoginFailures \cup {"login_ok", "login_no_response"}

\* faulty variant: the body of the login response is not compared with 'Ok.'
AfterLoginStatusOnly(outcome) ==
    CASE outcome \in {"login_ok", "login_body"} -> "get_torrents"
      [] outcome = "login_no_response" -> "blocked"
      [] OTHER -> "sleep"

AfterLogin(outcome) ==
    CASE outcome = "login_ok" -> "get_torrents"
      [] outcome = "login_no_response" -> "blocked"
      [] OTHER -> "sleep"

\* get_torrents_info returns [] on an exception or a status other than 200
FetchFailures == {"fetch_exception", "fetch_status"}
FetchOutcomes == FetchFailures \cup {"fetch_ok", "fetch_no_response"}
Fetched(outcome, list) == IF outcome = "fetch_ok" THEN list ELSE <<>>
AfterFetch(outcome) == IF outcome = "fetch_no_response" THEN "blocked" ELSE "format"

\* faulty variant: the two calls at the end of format_torrent_stats exchanged
TailCallsSendFirst == <<"send", "save">>

\* the two calls that end format_torrent_stats, in the order of the code
TailCalls == <<"save", "send">>

\* the statement that follows the computation of the figures and the embed
AfterStats == TailCalls[1]

\* the statement that follows one of the two calls: the other call when it
\* is still to come, else the return to main and its sleep
AfterCall(call) == IF call = TailCalls[1] THEN TailCalls[2] ELSE "sleep"

SaveOutcomes == {"save_ok", "save_fail", "save_torn"}

\* faulty variant: a failed save ends the cycle
AfterSaveStopOnFailure(outcome) ==
    IF outcome = "save_ok" THEN AfterCall("save") ELSE "sleep"

\* save_current_stats swallows every exception: the next statement follows
\* whatever the outcome
AfterSave(outcome) == AfterCall("save")

SendOutcomes == {"send_ok", "send_status", "send_exception", "send_no_response"}

\* send_discord_webhook swallows every exception and ignores the status;
\* requests.post has no timeout and does not return without a response
AfterSend(outcome) ==
    IF outcome = "send_no_response" THEN "blocked" ELSE AfterCall("send")

\* faulty variant: the new entries are merged into the stored mapping
WrittenMerged(outcome, d, ts) ==
    CASE outcome = "save_ok" ->
            LET old == Stored(d)
                new == StatsOf(ts)
            IN Db([h \in DOMAIN old \cup DOMAIN new |->
                      IF h \in DOMAIN new THEN new[h] ELSE old[h]])
      [] outcome = "save_fail" -> d
      [] outcome = "save_torn" -> Corrupt

\* the file after a call of save_current_stats: the new mapping, the file
\* as it was (shelve.open raised), or an unreadable file (the write raised
\* part-way).  Which of the three happens is the file system's and the dbm
\* backend's choice, whatever the file was before.
Written(outcome, d, ts) ==
    CASE outcome = "save_ok" -> Db(StatsOf(ts))
      [] outcome = "save_fail" -> d
      [] outcome = "save_torn" -> Corrupt

\* the file after load_previous_stats: shelve.open creates a missing file
Opened(d) == IF d.kind = "absent" THEN Db(EmptyStats) ELSE d

\* ------------------------------------------------------- configuration
\* main reads its settings with os.getenv, which yields None for a variable
\* that is not set, and passes them on unexamined.  The username and the
\* password go to the server as they are; the two URLs go to requests.
ConfigUrls == {"QBITTORRENT_URL", "DISCORD_WEBHOOK_URL"}
MissingConfigs == SUBSET ConfigUrls \ {{}}

\* faulty variant: a default address stands in for an unset QBITTORRENT_URL
LoginResultsDefaultUrl(unset) == LoginOutcomes

\* f"{None}/api/v2/auth/login" has no scheme: session.post raises
\* MissingSchema, a RequestException, which login_qbittorrent catches
LoginResults(unset) ==
    IF "QBITTORRENT_URL" \in unset THEN {"login_exception"} ELSE LoginOutcomes

\* the same for session.get in get_torrents_info
FetchResults(unset) ==
    IF "QBITTORRENT_URL" \in unset THEN {"fetch_exception"} ELSE FetchOutcomes

\* requests.post(None, ...) raises MissingSchema, which send_discord_webhook
\* swallows
SendResults(unset) ==
    IF "DISCORD_WEBHOOK_URL" \in unset THEN {"send_exception"} ELSE SendOutcomes

\* ------------------------------------------------------------- history
\* What earlier cycles fetched, kept to relate a cycle's figures to them.
\* A cycle is successful when it fetched a list that is not empty and its
\* save succeeded; it is failed or skipped when its login or fetch failed or
\* its list was empty.  The history is kept in SpecItems only.
Untracked ==
    [kind |-> "untracked", records |-> EmptyStats, gap |-> FALSE,
     added |-> {}, dropped |-> {}]
NoCommit ==
    [kind |-> "none", records |-> EmptyStats, gap |-> FALSE,
     added |-> {}, dropped |-> {}]

\* the fetched record of each hash (the last one, should a hash repeat)
RecordsByHash(ts) ==
    [h \in {ts[i].hash : i \in DOMAIN ts} |->
        ts[CHOOSE i \in DOMAIN ts :
              /\ ts[i].hash = h
              /\ \A j \in DOMAIN ts : j > i => ts[j].hash # h]]

\* `earlier` after a call of save_current_stats: the records of this cycle
\* when the commit succeeded, with the hashes the cycle counted as new and
\* as deleted; nothing once a commit has failed
EarlierAfterSave(e, outcome, ts, prev) ==
    CASE e.kind = "untracked" -> e
      [] ts = <<>> -> e
      [] outcome = "save_ok" ->
            [kind |-> "commit", records |-> RecordsByHash(ts), gap |-> FALSE,
             added |-> current_hashes(ts) \ DOMAIN prev,
             dropped |-> DOMAIN prev \ current_hashes(ts)]
      [] OTHER -> NoCommit

\* `earlier` at the end of a cycle: a failed or skipped cycle has passed
\* since the successful one
EarlierAfterCycle(e, ts) ==
    IF e.kind = "commit" /\ ts = <<>> THEN [e EXCEPT !.gap = TRUE] ELSE e

\* the item whose uploaded deltas are summed over the run
TrackedItem == "A"
RunUntracked == [kind |-> "untracked", first |-> 0, last |-> 0, sum |-> 0]
NoRun == [kind |-> "none", first |-> 0, last |-> 0, sum |-> 0]

\* `run` after a call of save_current_stats: while every commit succeeds
\* and the tracked item is in every successful cycle, its uploaded counter at
\* the first and at the last successful cycle and the sum of the uploaded
\* deltas it contributed in the cycles after the first
RunAfterSave(r, outcome, ts, prev) ==
    CASE r.kind = "untracked" -> r
      [] ts = <<>> -> r
      [] outcome # "save_ok" -> NoRun
      [] TrackedItem \notin {ts[i].hash : i \in DOMAIN ts} -> NoRun
      [] OTHER ->
            LET t == RecordsByHash(ts)[TrackedItem]
                step == IF TrackedItem \in DOMAIN prev
                        THEN uploaded_diff(t, prev) ELSE 0
            IN IF r.kind = "run"
               THEN [kind |-> "run", first |-> r.first, last |-> t.uploaded,
                     sum |-> r.sum + step]
               ELSE [kind |-> "run", first |-> t.uploaded, last |-> t.uploaded,
                     sum |-> 0]

\* --------------------------------------------------------------- state
VARIABLES
    missing,                      \* the settings os.getenv did not find
    pc,                           \* the statement main() is at
    disk,                         \* the file torrent_stats.db
    torrents,                     \* the list get_torrents_info returned
    previous_stats,               \* what load_previous_stats returned
    total_uploaded_since_last,
    total_downloaded_since_last,
    new_torrents,
    deleted_count,
    active_count,
    stalled_count,
    seeding_count,
    downloading_count,
    paused_count,
    disk0,                        \* history: the file when the cycle began
    trace,                        \* history: what the cycle has done so far
    earlier,                      \* history: the last successful cycle
    run                           \* history: the tracked item over the run

vars == <<missing, pc, disk, torrents, previous_stats, total_uploaded_since_last,
          total_downloaded_since_last, new_torrents, deleted_count,
          active_count, stalled_count, seeding_count, downloading_count,
          paused_count, disk0, trace, earlier, run>>

past == <<earlier, run>>

counts == <<active_count, stalled_count, seeding_count, downloading_count,
            paused_count>>

figures == <<previous_stats, total_uploaded_since_last,
             total_downloaded_since_last, new_torrents, deleted_count, counts>>

\* the locals of a cycle before it has computed anything
NoFigures ==
    /\ previous_stats' = EmptyStats
    /\ total_uploaded_since_last' = 0
    /\ total_downloaded_since_last' = 0
    /\ new_torrents' = 0
    /\ deleted_count' = 0
    /\ active_count' = 0
    /\ stalled_count' = 0
    /\ seeding_count' = 0
    /\ downloading_count' = 0
    /\ paused_count' = 0

\* the locals of format_torrent_stats before it has run
FiguresUnset ==
    /\ previous_stats = EmptyStats
    /\ total_uploaded_since_last = 0
    /\ total_downloaded_since_last = 0
    /\ new_torrents = 0
    /\ deleted_count = 0
    /\ active_count = 0
    /\ stalled_count = 0
    /\ seeding_count = 0
    /\ downloading_count = 0
    /\ paused_count = 0

\* main before its first query_qbittorrent
Start ==
    /\ pc = "login"
    /\ disk \in InitialDisks
    /\ disk0 = disk
    /\ torrents = <<>>
    /\ FiguresUnset
    /\ trace = <<>>

\* every setting is there
Init == Start /\ missing = {} /\ earlier = Untracked /\ run = RunUntracked

\* one of the URLs, or both, are not set
InitMissingConfig ==
    Start /\ missing \in MissingConfigs /\ earlier = Untracked /\ run = RunUntracked

\* every setting is there, and the history of the cycles is kept
InitItems == Start /\ missing = {} /\ earlier = NoCommit /\ run = NoRun

\* a first cycle that has just fetched a list of torrents in any states
InitAnyState ==
    /\ missing = {}
    /\ pc = "format"
    /\ disk \in {Absent, Corrupt, Db(EmptyStats)}
    /\ disk0 = disk
    /\ torrents \in AnyStateLists
    /\ FiguresUnset
    /\ trace = <<"login_ok", "fetch_ok">>
    /\ earlier = Untracked
    /\ run = RunUntracked

\* ------------------------------------------------------------- actions
\* query_qbittorrent: session = login_qbittorrent(...); if not session: return
Login ==
    /\ pc = "login"
    /\ \E outcome \in LoginResults(missing) :
        /\ pc' = AfterLogin(outcome)
        /\ trace' = Append(trace, outcome)
    /\ UNCHANGED <<missing, disk, torrents, figures, disk0, past>>

\* torrents = get_torrents_info(session, qbitorrent_url), the response
\* holding one of `lists`
GetTorrentsInfoFrom(lists) ==
    /\ pc = "get_torrents"
    /\ \E outcome \in FetchResults(missing), list \in lists :
        /\ torrents' = Fetched(outcome, list)
        /\ trace' = Append(trace, outcome)
        /\ pc' = AfterFetch(outcome)
    /\ UNCHANGED <<missing, disk, figures, disk0, past>>

GetTorrentsInfo == GetTorrentsInfoFrom(TorrentLists)

\* the response holds one record per torrent
GetItems == GetTorrentsInfoFrom(ItemLists)

\* format_torrent_stats up to the embed: the early return on an empty list,
\* load_previous_stats, the loop over torrents and the deleted count
FormatTorrentStats ==
    /\ pc = "format"
    /\ IF EarlyReturn(torrents)
       THEN /\ pc' = "sleep"
            /\ trace' = Append(trace, "skip")
            /\ UNCHANGED <<disk, figures>>
       ELSE LET prev == Stored(disk)
            IN /\ disk' = Opened(disk)
               /\ previous_stats' = prev
               /\ active_count' = CountIn(torrents, ActiveStates)
               /\ stalled_count' = CountIn(torrents, StalledStates)
               /\ seeding_count' = CountIn(torrents, SeedingStates)
               /\ downloading_count' = CountIn(torrents, DownloadingStates)
               /\ paused_count' = CountIn(torrents, PausedStates)
               /\ IF RaisesKeyError(torrents, prev)
                  THEN /\ pc' = "crashed"
                       /\ trace' = Append(trace, "KeyError")
                       /\ UNCHANGED <<total_uploaded_since_last,
                                      total_downloaded_since_last,
                                      new_torrents, deleted_count>>
                  ELSE /\ pc' = AfterStats
                       /\ trace' = Append(trace, "stats")
                       /\ total_uploaded_since_last' = SinceLast(torrents, prev).uploaded
                       /\ total_downloaded_since_last' = SinceLast(torrents, prev).downloaded
                       /\ new_torrents' = SinceLast(torrents, prev).new
                       /\ deleted_count' = DeletedCount(torrents, prev)
    /\ UNCHANGED <<missing, torrents, disk0, past>>

\* save_current_stats(torrents)
SaveCurrentStats ==
    /\ pc = "save"
    /\ \E outcome \in SaveOutcomes :
        /\ disk' = Written(outcome, disk, torrents)
        /\ pc' = AfterSave(outcome)
        /\ trace' = Append(trace, outcome)
        /\ earlier' = EarlierAfterSave(earlier, outcome, torrents, previous_stats)
        /\ run' = RunAfterSave(run, outcome, torrents, previous_stats)
    /\ UNCHANGED <<missing, torrents, figures, disk0>>

\* the process is killed while db['torrents'] = stats is being written: the
\* file holds the old mapping, the new one, or is unreadable
KilledDuringSave ==
    /\ pc = "save"
    /\ disk' \in {disk, Db(StatsOf(torrents)), Corrupt}
    /\ pc' = "killed"
    /\ trace' = Append(trace, "killed")
    /\ UNCHANGED <<missing, torrents, figures, disk0, past>>

\* send_discord_webhook(webhook_url, [embed])
SendDiscordWebhook ==
    /\ pc = "send"
    /\ \E outcome \in SendResults(missing) :
        /\ pc' = AfterSend(outcome)
        /\ trace' = Append(trace, outcome)
    /\ UNCHANGED <<missing, disk, torrents, figures, disk0, past>>

\* main: time.sleep(polling_interval), then the next query_qbittorrent
Sleep ==
    /\ pc = "sleep"
    /\ pc' = "login"
    /\ torrents' = <<>>
    /\ NoFigures
    /\ disk0' = disk
    /\ trace' = <<>>
    /\ earlier' = EarlierAfterCycle(earlier, torrents)
    /\ UNCHANGED <<missing, disk, run>>

Next ==
    \/ Login
    \/ GetTorrentsInfo
    \/ FormatTorrentStats
    \/ SaveCurrentStats
    \/ KilledDuringSave
    \/ SendDiscordWebhook
    \/ Sleep

Spec == Init /\ [][Next]_vars

\* the loop started without one of its URLs
SpecMissingConfig == InitMissingConfig /\ [][Next]_vars

\* the loop fed with one record per torrent, the history of its cycles kept
NextItems ==
    \/ Login
    \/ GetItems
    \/ FormatTorrentStats
    \/ SaveCurrentStats
    \/ KilledDuringSave
    \/ SendDiscordWebhook
    \/ Sleep

SpecItems == InitItems /\ [][NextItems]_vars

\* format_torrent_stats applied to lists of torrents in any states
NextAnyState == FormatTorrentStats
SpecAnyState == InitAnyState /\ [][NextAnyState]_vars

\* =====================================================================
\* Properties
\* =====================================================================
Has(e) == \E i \in DOMAIN trace : trace[i] = e
Pos(e) == CHOOSE i \in DOMAIN trace : trace[i] = e

\* the cycle has computed its figures
Computed == Has("stats")
SaveAttempted == \E o \in SaveOutcomes : Has(o)
SendAttempted == \E o \in SendOutcomes : Has(o)
LoginFailed == \E o \in LoginFailures : Has(o)
FetchFailed == \E o \in FetchFailures : Has(o)
\* the positions of the current records whose hash the previous snapshot has
KnownPositions == {i \in DOMAIN torrents : torrents[i].hash \in DOMAIN previous_stats}
UploadedStep(i) == torrents[i].uploaded - previous_stats[torrents[i].hash].uploaded
DownloadedStep(i) ==
    LET e == previous_stats[torrents[i].hash]
    IN torrents[i].downloaded - (IF "downloaded" \in DOMAIN e THEN e.downloaded ELSE 0)

\* the sums of the steps over a set of positions
RECURSIVE SumUploadedSteps(_)
SumUploadedSteps(S) ==
    IF S = {} THEN 0
    ELSE LET i == CHOOSE k \in S : TRUE
         IN UploadedStep(i) + SumUploadedSteps(S \ {i})

RECURSIVE SumDownloadedSteps(_)
SumDownloadedSteps(S) ==
    IF S = {} THEN 0
    ELSE LET i == CHOOSE k \in S : TRUE
         IN DownloadedStep(i) + SumDownloadedSteps(S \ {i})

\* C1: once the figures are computed, the uploaded delta is the signed sum
\* of (current uploaded - previous uploaded) over exactly the records whose
\* hash is a key of the previous snapshot, the downloaded delta is the same
\* sum over downloaded with a missing previous field taken as 0, and every
\* other record adds 1 to the new count and nothing to the sums; nothing is
\* clamped.
C1_SinceLastPollDeltas ==
    Computed =>
        /\ total_uploaded_since_last = SumUploadedSteps(KnownPositions)
        /\ total_downloaded_since_last = SumDownloadedSteps(KnownPositions)
        /\ new_torrents = Cardinality(DOMAIN torrents \ KnownPositions)

\* a cycle with a known record whose counter went down, a previous entry
\* without 'downloaded', and a new record
C1_Witness ==
    /\ Computed
    /\ total_uploaded_since_last < 0
    /\ total_downloaded_since_last > 0
    /\ new_torrents = 1
    /\ \E h \in DOMAIN previous_stats : "downloaded" \notin DOMAIN previous_stats[h]

\* C2: first run: when the file held no snapshot at the start of the cycle
\* (absent, unreadable, or without entries) and the fetched list is not
\* empty, the new count is the number of records, the deleted count is 0
\* and both deltas are 0.
C2_FirstRun ==
    (Computed /\ Stored(disk0) = EmptyStats) =>
        /\ new_torrents = Len(torrents)
        /\ deleted_count = 0
        /\ total_uploaded_since_last = 0
        /\ total_downloaded_since_last = 0

C2_Witness ==
    /\ Computed
    /\ disk0.kind = "corrupt"
    /\ new_torrents = 2
    /\ ~DistinctHashes(torrents)

\* C3: removal detection: the deleted count is the number of keys of the
\* previous snapshot that are the hash of no current record.
C3_RemovalDetection ==
    Computed =>
        deleted_count =
            Cardinality({h \in DOMAIN previous_stats :
                            \A i \in DOMAIN torrents : torrents[i].hash # h})

\* previous {A, B}, current only one of them
C3_Witness ==
    /\ Computed
    /\ Cardinality(DOMAIN previous_stats) = 2
    /\ deleted_count = 1

\* C4: empty-current skip: a cycle whose fetch succeeded with an empty list
\* sends nothing, does not call save_current_stats and leaves the file as it
\* was.
C4_EmptyCurrentSkip ==
    (Has("fetch_ok") /\ torrents = <<>>) =>
        /\ ~SendAttempted
        /\ ~SaveAttempted
        /\ ~Computed
        /\ disk = disk0

C4_Witness ==
    /\ pc = "sleep"
    /\ Has("fetch_ok")
    /\ Has("skip")
    /\ torrents = <<>>
    /\ Stored(disk) # EmptyStats

\* C5: failure short-circuit: after a failed login or a failed fetch the
\* cycle computes nothing, sends nothing, leaves the file as it was and only
\* has the sleep ahead (format_torrent_stats returns at once on the empty
\* list a failed fetch yields).
C5_FailureShortCircuit ==
    (LoginFailed \/ FetchFailed) =>
        /\ pc \in {"format", "sleep"}
        /\ pc = "format" => EarlyReturn(torrents)
        /\ ~Computed /\ ~SaveAttempted /\ ~SendAttempted
        /\ disk = disk0
        /\ previous_stats = EmptyStats
        /\ total_uploaded_since_last = 0 /\ total_downloaded_since_last = 0
        /\ new_torrents = 0 /\ deleted_count = 0

C5_Witness ==
    /\ pc = "sleep"
    /\ Has("fetch_exception")
    /\ Stored(disk) # EmptyStats

C7_NoPartialSuccess == pc = "sleep" => (Has("send_ok") <=> Has("save_ok"))

\* C7: a failed login, a failed fetch or an empty list stops the cycle
\* before anything is computed, saved or sent; once the figures are computed
\* both save_current_stats and send_discord_webhook are called, whatever the
\* outcome of the save.
C7_BothStepsAttempted ==
    pc = "sleep" =>
        /\ Computed <=> (Has("fetch_ok") /\ torrents # <<>>)
        /\ Computed <=> SaveAttempted
        /\ SaveAttempted <=> SendAttempted

\* the report is delivered although the snapshot was not committed
C7_Witness ==
    /\ pc = "sleep"
    /\ Has("send_ok")
    /\ ~Has("save_ok")
    /\ SaveAttempted

\* C8 as claimed: after save_current_stats, completed or interrupted, the
\* file reads as the complete new snapshot or the complete previous one.
C8_AtomicReplacement ==
    (SaveAttempted \/ pc = "killed") =>
        Stored(disk) \in {Stored(disk0), StatsOf(torrents)}

\* C9 as claimed: no state error ends the loop: main never stops on an
\* uncaught exception.
C9_LoopNeverTerminates == pc # "crashed"

\* C10: round trip: after a successful save_current_stats of a list with
\* distinct hashes, the file reads as a mapping whose keys are exactly the
\* hashes of the list and whose entry for each hash holds that record's
\* uploaded, downloaded and name.
C10_RoundTrip ==
    (Has("save_ok") /\ DistinctHashes(torrents)) =>
        /\ DOMAIN Stored(disk) = {torrents[i].hash : i \in DOMAIN torrents}
        /\ \A i \in DOMAIN torrents :
            LET e == Stored(disk)[torrents[i].hash]
            IN /\ DOMAIN e = {"uploaded", "downloaded", "name"}
               /\ e.uploaded = torrents[i].uploaded
               /\ e.downloaded = torrents[i].downloaded
               /\ e.name = torrents[i].name

C10_Witness ==
    /\ Has("save_ok")
    /\ Len(torrents) = 2
    /\ DistinctHashes(torrents)
    /\ torrents[1].uploaded # torrents[1].downloaded
    /\ Stored(disk0) # EmptyStats
    /\ Stored(disk) # Stored(disk0)

\* C11 as claimed: whatever the notifier does, a cycle that reaches
\* send_discord_webhook goes on to the sleep: the loop is never left
\* waiting inside the webhook call.
C11_NotificationNeverStalls == ~(pc = "blocked" /\ Has("send_no_response"))

\* C12 as claimed: with a required setting missing every cycle's login
\* fails, no report is sent, the persisted snapshot stays as it was and the
\* process does not crash.
C12_NoOpCycles ==
    missing # {} =>
        /\ ~Has("login_ok")
        /\ ~Has("send_ok")
        /\ Stored(disk) = Stored(disk0)
        /\ pc # "crashed"

\* C12: without QBITTORRENT_URL every login raises an exception that is
\* caught: the cycle does nothing but sleep and the file is never touched.
\* Without DISCORD_WEBHOOK_URL the login is not affected: the cycle computes
\* and saves as usual, and every webhook call ends in a swallowed exception,
\* so no report is delivered.
C12_MissingUrls ==
    /\ "QBITTORRENT_URL" \in missing =>
        /\ pc \in {"login", "sleep"}
        /\ trace \in {<<>>, <<"login_exception">>}
        /\ disk = disk0
    /\ "DISCORD_WEBHOOK_URL" \in missing =>
        \A i \in DOMAIN trace :
            trace[i] \in SendOutcomes => trace[i] = "send_exception"

\* the webhook URL alone is missing: the snapshot is replaced, nothing is
\* delivered
C12_Witness ==
    /\ missing = {"DISCORD_WEBHOOK_URL"}
    /\ pc = "sleep"
    /\ Has("login_ok")
    /\ Has("save_ok")
    /\ Has("send_exception")
    /\ Stored(disk0) # EmptyStats
    /\ Stored(disk) # Stored(disk0)

\* the number of fetched records whose state is one of `states`
InStates(states) == Cardinality({i \in DOMAIN torrents : torrents[i].state \in states})

\* C13: each category count is the number of current records whose state is
\* in that category's set, whatever the other categories hold: a record in
\* state uploading or forcedUP adds 1 to the active and to the seeding count,
\* a record in state downloading or forcedDL adds 1 to the active and to the
\* downloading count.
C13_CategoryCounts ==
    Computed =>
        /\ active_count = InStates({"downloading", "uploading", "forcedUP", "forcedDL"})
        /\ stalled_count = InStates({"stalledUP", "stalledDL"})
        /\ seeding_count =
            InStates({"uploading", "stalledUP", "forcedUP", "queuedUP", "checkingUP"})
        /\ downloading_count =
            InStates({"downloading", "stalledDL", "forcedDL", "queuedDL",
                      "checkingDL", "metaDL"})
        /\ active_count >= InStates({"uploading", "forcedUP"})
                            + InStates({"downloading", "forcedDL"})
        /\ seeding_count >= InStates({"uploading", "forcedUP"})
        /\ downloading_count >= InStates({"downloading", "forcedDL"})

\* one uploading and one forcedDL record: both active, one seeding, one
\* downloading
C13_Witness ==
    /\ Computed
    /\ \E i \in DOMAIN torrents : torrents[i].state = "uploading"
    /\ \E i \in DOMAIN torrents : torrents[i].state = "forcedDL"
    /\ active_count = 2
    /\ seeding_count = 1
    /\ downloading_count = 1
    /\ stalled_count = 0


\* the cycle has computed its figures from what the last successful cycle
\* left, and has not saved yet
ComputedAfterCommit == Computed /\ ~SaveAttempted /\ earlier.kind = "commit"

\* the positions of the records that the last successful cycle fetched too
InBoth == {i \in DOMAIN torrents : torrents[i].hash \in DOMAIN earlier.records}
UploadedSince(i) == torrents[i].uploaded - earlier.records[torrents[i].hash].uploaded
DownloadedSince(i) ==
    torrents[i].downloaded - earlier.records[torrents[i].hash].downloaded

RECURSIVE SumUploadedSince(_)
SumUploadedSince(S) ==
    IF S = {} THEN 0
    ELSE LET i == CHOOSE k \in S : TRUE
         IN UploadedSince(i) + SumUploadedSince(S \ {i})

RECURSIVE SumDownloadedSince(_)
SumDownloadedSince(S) ==
    IF S = {} THEN 0
    ELSE LET i == CHOOSE k \in S : TRUE
         IN DownloadedSince(i) + SumDownloadedSince(S \ {i})

\* C15: reconciliation across failed cycles: when a cycle computes its
\* figures after a successful cycle, with any number of failed or skipped
\* cycles (login failure, fetch failure, empty list) between the two, the
\* snapshot it loads is the one of that successful cycle, every record
\* fetched in both contributes its counter now minus its counter at
\* the earlier successful cycle, and the deltas of the cycle are the sums of
\* these contributions; and over a run in which every commit succeeds, the
\* uploaded deltas contributed by an item present in every successful cycle
\* sum to its last uploaded counter minus its uploaded counter at the first
\* successful cycle.
C15_Reconciliation ==
    /\ ComputedAfterCommit =>
          /\ DOMAIN previous_stats = DOMAIN earlier.records
          /\ \A i \in InBoth :
                /\ uploaded_diff(torrents[i], previous_stats) = UploadedSince(i)
                /\ downloaded_diff(torrents[i], previous_stats) = DownloadedSince(i)
          /\ total_uploaded_since_last = SumUploadedSince(InBoth)
          /\ total_downloaded_since_last = SumDownloadedSince(InBoth)
    /\ run.kind = "run" => run.sum = run.last - run.first

\* a cycle that follows a successful one after a failed or skipped cycle
\* and reports a delta, in a run whose deltas for the tracked item add up to
\* something
C15_Witness ==
    /\ ComputedAfterCommit
    /\ earlier.gap
    /\ InBoth # {}
    /\ total_uploaded_since_last # 0
    /\ run.kind = "run"
    /\ run.sum # 0

\* C16: each lifecycle change is reported exactly once: after a successful
\* cycle the keys of the persisted snapshot are the hashes fetched in that
\* cycle; so the next cycle that computes figures, after any failed or
\* skipped cycles, counts as deleted exactly the hashes of the last
\* successful cycle that are gone and as new exactly the hashes it did not
\* have, and a hash counted as deleted or new in the last successful cycle is
\* not counted again while it stays absent or present.
C16_ReportedOnce ==
    /\ (Has("save_ok") /\ torrents # <<>>) =>
          DOMAIN Stored(disk) = current_hashes(torrents)
    /\ ComputedAfterCommit =>
          /\ deleted_count =
                Cardinality(DOMAIN earlier.records \ current_hashes(torrents))
          /\ new_torrents =
                Cardinality(current_hashes(torrents) \ DOMAIN earlier.records)
          /\ \A h \in earlier.dropped \ current_hashes(torrents) :
                h \notin DOMAIN previous_stats
          /\ \A h \in earlier.added \cap current_hashes(torrents) :
                h \in DOMAIN previous_stats

\* a cycle replaced one hash by another, a skipped cycle followed, and the
\* next cycle fetches the same list: the hash gone is not counted as
\* deleted again and the hash that came is not counted as new again
C16_Witness ==
    /\ ComputedAfterCommit
    /\ earlier.gap
    /\ earlier.dropped \ current_hashes(torrents) # {}
    /\ earlier.added \cap current_hashes(torrents) # {}
    /\ deleted_count = 0
    /\ new_torrents = 0

\* the hashes both fetched now and kept in the previous snapshot
CommonHashes == current_hashes(torrents) \cap DOMAIN previous_stats

\* C17: count conservation: once the figures are computed from a list whose
\* hashes are pairwise distinct, the number of records minus the new count
\* and the number of previous entries minus the deleted count are both the
\* number of hashes common to the list and the previous snapshot; so the
\* new count is at most the number of records and the deleted count at most
\* the number of previous entries.
C17_CountConservation ==
    (Computed /\ DistinctHashes(torrents)) =>
        /\ Len(torrents) - new_torrents = Cardinality(CommonHashes)
        /\ Cardinality(DOMAIN previous_stats) - deleted_count =
              Cardinality(CommonHashes)
        /\ new_torrents <= Len(torrents)
        /\ deleted_count <= Cardinality(DOMAIN previous_stats)

\* two records, one of them known from the previous snapshot
C17_Witness ==
    /\ Computed
    /\ DistinctHashes(torrents)
    /\ Len(torrents) = 2
    /\ Cardinality(CommonHashes) = 1
    /\ new_torrents = 1

====
